---- MODULE Spec2Model ----
(***************************************************************************)
(* Model of app.py (Gemini AI Auto Tagger): the Tag Generator              *)
(* get_tags_from_gemini, the Metadata Writer write_tags_securely, the      *)
(* Per-File Worker process_single_file, the folder-wide clear              *)
(* remove_all_tags_in_folder and the two button handlers of the UI with    *)
(* the ThreadPoolExecutor / as_completed fan-out between them.             *)
(*                                                                         *)
(* Text is a sequence of strings.  File names, tag strings and messages    *)
(* that come from outside are sequences of single characters; a string     *)
(* literal of the program is kept as one element of the sequence.          *)
(***************************************************************************)
EXTENDS Integers, Sequences, FiniteSets, TLC

\* ------------------------------------------------------------------ bounds
\* largest number of directory entries of a target folder in Spec
MaxEntries == 3
\* number of eligible files of the long batch in LogSpec
LogFiles == 21

\* ------------------------------------------------------- program constants
\* st.slider(..., 1, 10, 4)
SliderMin == 1
SliderMax == 10
\* logs[:20]
LogCap == 20

\* --------------------------------------------------------- Python values
\* Python's None
None == <<"<None>">>

\* truth value of a str-or-None, as `if err:` and `not api_key` take it
Truthy(x) == x # None /\ x # <<>>

\* str(x) inside an f-string
PyStr(x) == IF x = None THEN <<"N", "o", "n", "e">> ELSE x

Whitespace == {" ", "\n", "\t"}

RECURSIVE LStrip(_)
LStrip(s) == IF s # <<>> /\ Head(s) \in Whitespace THEN LStrip(Tail(s)) ELSE s

RECURSIVE RStrip(_)
RStrip(s) ==
  IF s # <<>> /\ s[Len(s)] \in Whitespace THEN RStrip(SubSeq(s, 1, Len(s) - 1)) ELSE s

\* str.strip()
Strip(s) == RStrip(LStrip(s))

UpperLetters == <<"A", "B", "C", "D", "E", "F", "G", "H", "I", "J", "K", "L", "M",
                  "N", "O", "P", "Q", "R", "S", "T", "U", "V", "W", "X", "Y", "Z">>
LowerLetters == <<"a", "b", "c", "d", "e", "f", "g", "h", "i", "j", "k", "l", "m",
                  "n", "o", "p", "q", "r", "s", "t", "u", "v", "w", "x", "y", "z">>

LowerChar(c) ==
  IF \E i \in 1..Len(UpperLetters) : UpperLetters[i] = c
  THEN LowerLetters[CHOOSE i \in 1..Len(UpperLetters) : UpperLetters[i] = c]
  ELSE c

\* str.lower()
Lower(s) == [i \in 1..Len(s) |-> LowerChar(s[i])]

\* str.endswith(suffix)
EndsWith(s, suf) ==
  Len(s) >= Len(suf) /\ SubSeq(s, Len(s) - Len(suf) + 1, Len(s)) = suf

\* str.startswith(prefix)
StartsWith(s, pre) == Len(s) >= Len(pre) /\ SubSeq(s, 1, Len(pre)) = pre

\* os.path.join(folder, name)
PathJoin(folder, name) == folder \o <<"/">> \o name

RECURSIVE Basename(_)
\* os.path.basename(path): what follows the last separator
Basename(p) ==
  IF \E i \in 1..Len(p) : p[i] = "/"
  THEN Basename(SubSeq(p, (CHOOSE i \in 1..Len(p) : p[i] = "/") + 1, Len(p)))
  ELSE p

RECURSIVE Lines(_)
\* the lines of a text file, as a reader of one argument per line sees them
Lines(t) ==
  IF t = <<>> THEN <<>>
  ELSE IF \E i \in 1..Len(t) : t[i] = "\n"
       THEN LET k == CHOOSE i \in 1..Len(t) :
                       t[i] = "\n" /\ \A h \in 1..(i - 1) : t[h] # "\n"
            IN <<SubSeq(t, 1, k - 1)>> \o Lines(SubSeq(t, k + 1, Len(t)))
       ELSE <<t>>

Take(s, n) == SubSeq(s, 1, IF Len(s) < n THEN Len(s) ELSE n)

\* ------------------------------------------------ the world outside app.py
\* the extensions tuple of the tagging tab
extensions == << <<".", "j", "p", "g">>, <<".", "j", "p", "e", "g">>,
                 <<".", "p", "n", "g">>, <<".", "g", "i", "f">>,
                 <<".", "m", "p", "4">> >>

\* directory entries a target folder may hold: name, kind, and for a
\* sub-folder the names of the files inside it
EntryUniverse ==
  << [name |-> <<"a", ".", "j", "p", "g">>, kind |-> "file", inside |-> {}],
     [name |-> <<"b", ".", "t", "x", "t">>, kind |-> "file", inside |-> {}],
     [name |-> <<"C", ".", "P", "N", "G">>, kind |-> "file", inside |-> {}],
     [name |-> <<"d", ".", "g", "i", "f">>, kind |-> "dir", inside |-> {}],
     [name |-> <<"s">>, kind |-> "dir",
      inside |-> {<<"e", ".", "m", "p", "4">>}] >>

RECURSIVE PickEntries(_, _)
\* the entries of `universe` at the indices in `idx`, in the universe's order
PickEntries(universe, idx) ==
  IF universe = <<>> THEN <<>>
  ELSE LET rest == PickEntries(SubSeq(universe, 1, Len(universe) - 1), idx)
       IN IF Len(universe) \in idx THEN Append(rest, universe[Len(universe)])
          ELSE rest

FolderName == <<"i">>

\* what target_folder may name: nothing, a regular file, or a folder
Targets ==
  { [path |-> FolderName, kind |-> "missing", entries |-> <<>>],
    [path |-> FolderName, kind |-> "file", entries |-> <<>>] }
  \cup { [path |-> FolderName, kind |-> "dir",
          entries |-> PickEntries(EntryUniverse, idx)] :
         idx \in { x \in SUBSET (1..Len(EntryUniverse)) :
                   Cardinality(x) <= MaxEntries } }

\* the i-th file of the long batch
LogEntry(i) ==
  [name |-> <<LowerLetters[i], ".", "j", "p", "g">>, kind |-> "file", inside |-> {}]

LogTarget ==
  [path |-> FolderName, kind |-> "dir", entries |-> [i \in 1..LogFiles |-> LogEntry(i)]]

\* slider positions tried
ConcurrencyLevels == {SliderMin, 2, SliderMax}

\* what the remote service and the external tool may do in a run
EnvFull ==
  [texts  |-> { <<" ", "a", "\n">>, <<"a", "\n", "-", "z">>, <<"a", "\n", "z">>, <<>> },
   aiExc  |-> { <<>>, <<"e">> },
   states |-> {"PROCESSING", "ACTIVE", "FAILED"},
   wr     |-> {"create_exc", "write_exc", "run_exc", "exit0", "nonzero"},
   wrText |-> { <<"x">> },
   rmFails |-> BOOLEAN,
   setOrder |-> "any"]

\* a service and a tool that never fail
EnvClean ==
  [texts  |-> { <<"a", ",", " ", "b">> },
   aiExc  |-> {},
   states |-> {"PROCESSING", "ACTIVE"},
   wr     |-> {"exit0"},
   wrText |-> { <<"x">> },
   rmFails |-> {FALSE},
   setOrder |-> "creation"]

\* a service that may fail and a tool that may exit non-zero
EnvLive ==
  [texts  |-> { <<"a">> },
   aiExc  |-> { <<"e">> },
   states |-> {"PROCESSING", "ACTIVE", "FAILED"},
   wr     |-> {"exit0", "nonzero"},
   wrText |-> { <<"x">> },
   rmFails |-> {FALSE},
   setOrder |-> "any"]

\* ------------------------------------------------------------------ state
VARIABLES
  api_key,          \* sidebar text input
  target,           \* what target_folder names on disk
  concurrency,      \* slider value
  env,              \* what the service and the tool may do in this run
  main_pc,          \* where the script run is
  jobs,             \* per submitted file: the worker's position and results
  queue,            \* the executor's work queue (indices of jobs), FIFO
  completed,        \* indices of finished futures, in completion order
  snapshot,         \* list of the futures finished when as_completed was entered
  delivered,        \* indices in the order the for loop received them
  logs,             \* the list logs
  log_area,         \* the lines shown in the log text area
  processed_count,
  total_files,
  clear_calls,      \* invocations of remove_all_tags_in_folder
  clear_result      \* what remove_all_tags_in_folder returned

vars == <<api_key, target, concurrency, env, main_pc, jobs, queue, completed,
          snapshot, delivered, logs, log_area, processed_count, total_files,
          clear_calls, clear_result>>

NoOutcome == [filename |-> <<>>, success |-> FALSE, message |-> None]

\* a job as executor.submit leaves it
NewJob(path) ==
  [path |-> path, pc |-> "queued", aiCalls |-> 0, aiFailed |-> FALSE,
   tags |-> None, err |-> None, writeCalls |-> 0, tmp |-> "none",
   rmTried |-> FALSE, argfile |-> <<>>, tool |-> "none", toolText |-> <<>>,
   outcome |-> NoOutcome]

JobIds == 1..Len(jobs)

\* os.path.exists(target_folder)
Exists(t) == t.kind # "missing"

\* f.lower().endswith(extensions)
Eligible(name) == \E i \in 1..Len(extensions) : EndsWith(Lower(name), extensions[i])

RECURSIVE ListFiles(_, _)
\* [os.path.join(target_folder, f) for f in os.listdir(target_folder) if ...]
ListFiles(folder, entries) ==
  IF entries = <<>> THEN <<>>
  ELSE LET rest == ListFiles(folder, Tail(entries))
       IN IF Eligible(Head(entries).name)
          THEN <<PathJoin(folder, Head(entries).name)>> \o rest
          ELSE rest

\* whether path names a directory of the target folder
IsDirectory(path) ==
  \E i \in 1..Len(target.entries) :
    /\ PathJoin(target.path, target.entries[i].name) = path
    /\ target.entries[i].kind = "dir"

Idle ==
  /\ main_pc = "idle"
  /\ jobs = <<>> /\ queue = <<>> /\ completed = <<>> /\ snapshot = <<>>
  /\ delivered = <<>> /\ logs = <<>> /\ log_area = <<>>
  /\ processed_count = 0 /\ total_files = 0
  /\ clear_calls = 0 /\ clear_result = [success |-> FALSE, msg |-> None]

Init ==
  /\ api_key \in { <<>>, <<"K">> }
  /\ target \in Targets
  /\ concurrency \in ConcurrencyLevels
  /\ env = EnvFull
  /\ Idle

\* ------------------------------------------------------ process_single_file
\* lines 106-107 of process_single_file, reached when get_tags_from_gemini
\* has returned (tags, err); failed records whether the AI stage failed
AfterTags(job, tags, err, failed) ==
  LET got == [job EXCEPT !.tags = tags, !.err = err, !.aiFailed = failed]
  IN IF Truthy(err)
     THEN [got EXCEPT !.pc = "finished",
                      !.outcome = [filename |-> Basename(job.path),
                                   success |-> FALSE,
                                   message |-> <<"AI Error: ">> \o PyStr(err)]]
     ELSE [got EXCEPT !.pc = "write"]

\* the body of the instruction file
ArgsFile(file_path, tags) ==
  <<"-overwrite_original", "\n", "-m", "\n", "-charset", "\n", "utf8", "\n",
    "-sep", "\n", ", ", "\n">>
  \o <<"-XPKeywords=">> \o PyStr(tags) \o <<"\n">>
  \o <<"-Subject=">> \o PyStr(tags) \o <<"\n">>
  \o <<"-Keywords=">> \o PyStr(tags) \o <<"\n">>
  \o file_path \o <<"\n">>

\* the finally block: remove the file when args_file_path is set
Cleanup(pathSet, rmFails) ==
  IF pathSet
  THEN [tmp |-> IF rmFails THEN "exists" ELSE "removed", rmTried |-> TRUE]
  ELSE [tmp |-> "exists", rmTried |-> FALSE]

\* write_tags_securely(file_path, tags) when the outside world does `how`:
\*   create_exc  NamedTemporaryFile raises, no file is made
\*   write_exc   a write to the open file raises
\*   run_exc     subprocess.run raises
\*   exit0       exiftool exits with code 0
\*   nonzero     exiftool exits with another code, text on its error stream
\* text is the exception's str() or the error stream; rmFails: os.remove raises
WriteTagsSecurely(file_path, tags, how, text, rmFails) ==
  CASE how = "create_exc" ->
         [success |-> FALSE, msg |-> text, tmp |-> "none", rmTried |-> FALSE,
          argfile |-> <<>>, tool |-> "none", toolText |-> <<>>]
    [] how = "write_exc" ->
         [success |-> FALSE, msg |-> text, tmp |-> Cleanup(FALSE, rmFails).tmp,
          rmTried |-> Cleanup(FALSE, rmFails).rmTried,
          argfile |-> <<>>, tool |-> "none", toolText |-> <<>>]
    [] how = "run_exc" ->
         [success |-> FALSE, msg |-> text, tmp |-> Cleanup(TRUE, rmFails).tmp,
          rmTried |-> Cleanup(TRUE, rmFails).rmTried,
          argfile |-> ArgsFile(file_path, tags), tool |-> "exc", toolText |-> text]
    [] how = "exit0" ->
         [success |-> TRUE, msg |-> <<"Success">>, tmp |-> Cleanup(TRUE, rmFails).tmp,
          rmTried |-> Cleanup(TRUE, rmFails).rmTried,
          argfile |-> ArgsFile(file_path, tags), tool |-> "exit0", toolText |-> <<>>]
    [] how = "nonzero" ->
         [success |-> FALSE, msg |-> text, tmp |-> Cleanup(TRUE, rmFails).tmp,
          rmTried |-> Cleanup(TRUE, rmFails).rmTried,
          argfile |-> ArgsFile(file_path, tags), tool |-> "nonzero", toolText |-> text]

\* mutant of AfterWrite: the writer's success flag is not looked at
AfterWriteIgnoresFlag(job, w) ==
  [job EXCEPT !.pc = "finished",
              !.writeCalls = @ + 1,
              !.tmp = w.tmp, !.rmTried = w.rmTried, !.argfile = w.argfile,
              !.tool = w.tool, !.toolText = w.toolText,
              !.outcome = [filename |-> Basename(job.path), success |-> TRUE,
                           message |-> job.tags]]

\* lines 109-113 of process_single_file; w is what write_tags_securely returned
AfterWrite(job, w) ==
  [job EXCEPT !.pc = "finished",
              !.writeCalls = @ + 1,
              !.tmp = w.tmp, !.rmTried = w.rmTried, !.argfile = w.argfile,
              !.tool = w.tool, !.toolText = w.toolText,
              !.outcome = IF w.success
                          THEN [filename |-> Basename(job.path), success |-> TRUE,
                                message |-> job.tags]
                          ELSE [filename |-> Basename(job.path), success |-> FALSE,
                                message |-> <<"Write Error: ">> \o PyStr(w.msg)]]

\* ------------------------------------------------------- worker threads
InFlight == { j \in JobIds : jobs[j].pc \notin {"queued", "finished"} }

\* the job's future is done once process_single_file has returned
Finish(j, job) ==
  /\ jobs' = [jobs EXCEPT ![j] = job]
  /\ completed' = IF job.pc = "finished" THEN Append(completed, j) ELSE completed

WorkerFrame ==
  UNCHANGED <<api_key, target, concurrency, env, main_pc, snapshot, delivered,
              logs, log_area, processed_count, total_files, clear_calls,
              clear_result>>

\* a pool thread takes the next work item and calls process_single_file
Start(j) ==
  /\ j \in JobIds
  /\ queue # <<>> /\ Head(queue) = j
  /\ Cardinality(InFlight) < concurrency
  /\ queue' = Tail(queue)
  /\ jobs' = [jobs EXCEPT ![j].pc = "upload", ![j].aiCalls = @ + 1]
  /\ UNCHANGED completed
  /\ WorkerFrame

\* what the state of an uploaded file leads to: the while test and line 26
OnState(job, state) ==
  CASE state = "PROCESSING" -> [job EXCEPT !.pc = "sleep"]
    [] state = "FAILED" ->
         AfterTags(job, None, <<"Upload processing failed">>, TRUE)
    [] OTHER -> [job EXCEPT !.pc = "generate"]

\* the ways a remote call on a file may end: an exception with text, or a
\* file state
RemoteResults ==
  { [exc |-> TRUE, text |-> m, state |-> "none"] : m \in env.aiExc }
  \cup { [exc |-> FALSE, text |-> <<>>, state |-> st] : st \in env.states }

\* the one way an upload of a directory ends: open() raises IsADirectoryError
DirectoryUpload ==
  { [exc |-> TRUE, text |-> <<"[Errno 21] Is a directory">>, state |-> "none"] }

\* mutant of OnException: the exception leaves the worker and the call never
\* returns an outcome
OnExceptionEscapes(job, text) == [job EXCEPT !.pc = "raised"]

\* the except clause of get_tags_from_gemini
OnException(job, text) == AfterTags(job, None, text, TRUE)

\* genai.configure, guess_type and genai.upload_file
Upload(j) ==
  /\ j \in JobIds /\ jobs[j].pc = "upload"
  /\ \E r \in (IF IsDirectory(jobs[j].path) THEN DirectoryUpload ELSE RemoteResults) :
       Finish(j, IF r.exc THEN OnException(jobs[j], r.text)
                 ELSE OnState(jobs[j], r.state))
  /\ UNCHANGED queue
  /\ WorkerFrame

\* time.sleep(1) in the polling loop
Sleep(j) ==
  /\ j \in JobIds /\ jobs[j].pc = "sleep"
  /\ jobs' = [jobs EXCEPT ![j].pc = "get_file"]
  /\ UNCHANGED <<queue, completed>>
  /\ WorkerFrame

\* genai.get_file in the polling loop
GetFile(j) ==
  /\ j \in JobIds /\ jobs[j].pc = "get_file"
  /\ \E r \in RemoteResults :
       Finish(j, IF r.exc THEN OnException(jobs[j], r.text)
                 ELSE OnState(jobs[j], r.state))
  /\ UNCHANGED queue
  /\ WorkerFrame

\* what generate_content may do: raise, or answer with a text
GenerateResults ==
  { [exc |-> TRUE, text |-> m] : m \in env.aiExc }
  \cup { [exc |-> FALSE, text |-> t] : t \in env.texts }

\* model.generate_content and response.text.strip()
Generate(j) ==
  /\ j \in JobIds /\ jobs[j].pc = "generate"
  /\ \E r \in GenerateResults :
       Finish(j, IF r.exc THEN OnException(jobs[j], r.text)
                 ELSE AfterTags(jobs[j], Strip(r.text), None, FALSE))
  /\ UNCHANGED queue
  /\ WorkerFrame

\* write_tags_securely and the return of process_single_file
Write(j) ==
  /\ j \in JobIds /\ jobs[j].pc = "write"
  /\ \E how \in env.wr, text \in env.wrText, rmFails \in env.rmFails :
       Finish(j, AfterWrite(jobs[j],
                   WriteTagsSecurely(jobs[j].path, jobs[j].tags, how, text, rmFails)))
  /\ UNCHANGED queue
  /\ WorkerFrame

\* ---------------------------------------------------------- main thread
Range(f) == { f[i] : i \in DOMAIN f }

\* the tagging button, up to the submission of every file to the pool
ClickTag ==
  /\ main_pc = "idle"
  /\ IF ~Truthy(api_key)
     THEN /\ main_pc' = "err_key"
          /\ UNCHANGED <<jobs, queue, total_files>>
     ELSE IF ~Exists(target)
     THEN /\ main_pc' = "err_folder"
          /\ UNCHANGED <<jobs, queue, total_files>>
     ELSE IF target.kind # "dir"
     THEN \* os.listdir raises and the script run ends with the exception
          /\ main_pc' = "crashed"
          /\ UNCHANGED <<jobs, queue, total_files>>
     ELSE LET files == ListFiles(target.path, target.entries)
          IN IF files = <<>>
             THEN /\ main_pc' = "warn_nofiles"
                  /\ UNCHANGED <<jobs, queue, total_files>>
             ELSE /\ main_pc' = "submitted"
                  /\ total_files' = Len(files)
                  /\ jobs' = [i \in 1..Len(files) |-> NewJob(files[i])]
                  /\ queue' = [i \in 1..Len(files) |-> i]
  /\ UNCHANGED <<api_key, target, concurrency, env, completed, snapshot,
                 delivered, logs, log_area, processed_count, clear_calls,
                 clear_result>>

\* the orders in which list(set) may hold the members of S: any order, or,
\* in a run where the interpreter happens to keep the order of creation, that
SetOrders(S) ==
  IF env.setOrder = "any"
  THEN { s \in [1..Cardinality(S) -> S] :
           \A i, k \in 1..Cardinality(S) : s[i] = s[k] => i = k }
  ELSE { SelectSeq([i \in 1..Len(jobs) |-> i], LAMBDA j : j \in S) }

\* as_completed(futures) is entered: the futures finished by now are put in
\* a list, in the order of a set, to be yielded first
BeginDrain ==
  /\ main_pc = "submitted"
  /\ main_pc' = "draining"
  /\ \E order \in SetOrders(Range(completed)) : snapshot' = order
  /\ UNCHANGED <<api_key, target, concurrency, env, jobs, queue, completed,
                 delivered, logs, log_area, processed_count, total_files,
                 clear_calls, clear_result>>

\* mutant of NextYield: any finished future that was not yet yielded
NextYieldAnyFinished == Range(completed) \ Range(delivered)

\* the futures as_completed may yield next: the first left of those listed
\* at its entry, and after them the others in the order they finished
NextYield ==
  LET left == SelectSeq(snapshot, LAMBDA j : j \notin Range(delivered))
      later == SelectSeq(completed,
                 LAMBDA j : j \notin Range(snapshot) /\ j \notin Range(delivered))
  IN IF left # <<>> THEN {Head(left)}
     ELSE IF later # <<>> THEN {Head(later)} ELSE {}

\* log_msg of an outcome
LogMsg(o) ==
  IF o.success THEN <<"(ok) ">> \o o.filename \o <<": ">> \o PyStr(o.message)
  ELSE <<"(x) ">> \o o.filename \o <<": ">> \o PyStr(o.message)

\* mutant of InsertFirst: logs.append(log_msg)
InsertLast(list, x) == Append(list, x)

\* logs.insert(0, log_msg)
InsertFirst(list, x) == <<x>> \o list

\* one pass of the for loop over as_completed(futures)
Drain ==
  /\ main_pc = "draining"
  /\ \E j \in NextYield :
       /\ delivered' = Append(delivered, j)
       /\ processed_count' = processed_count + 1
       /\ logs' = InsertFirst(logs, LogMsg(jobs[j].outcome))
       /\ log_area' = Take(logs', LogCap)
  /\ UNCHANGED <<api_key, target, concurrency, env, main_pc, jobs, queue,
                 completed, snapshot, total_files, clear_calls, clear_result>>

\* the loop and the with block end, st.success is shown
Complete ==
  /\ main_pc = "draining"
  /\ Len(delivered) = Len(jobs)
  /\ main_pc' = "done"
  /\ UNCHANGED <<api_key, target, concurrency, env, jobs, queue, completed,
                 snapshot, delivered, logs, log_area, processed_count,
                 total_files, clear_calls, clear_result>>

\* what exiftool may do when run on the folder
ClearRuns ==
  { [how |-> "exit0", text |-> <<"3 image files updated">>],
    [how |-> "nonzero", text |-> <<"w">>],
    [how |-> "exc", text |-> <<"x">>] }

\* remove_all_tags_in_folder(folder_path) when the tool does run
RemoveAllTagsInFolder(run) ==
  IF run.how = "exit0" THEN [success |-> TRUE, msg |-> run.text]
  ELSE [success |-> FALSE, msg |-> run.text]

\* the clear button
ClickClear ==
  /\ main_pc = "idle"
  /\ IF ~Exists(target)
     THEN /\ main_pc' = "err_folder"
          /\ UNCHANGED <<clear_calls, clear_result>>
     ELSE \E run \in ClearRuns :
            /\ main_pc' = "cleared"
            /\ clear_calls' = clear_calls + 1
            /\ clear_result' = RemoveAllTagsInFolder(run)
  /\ UNCHANGED <<api_key, target, concurrency, env, jobs, queue, completed,
                 snapshot, delivered, logs, log_area, processed_count,
                 total_files>>

\* the steps of the pool thread running job j
Worker(j) ==
  Start(j) \/ Upload(j) \/ Sleep(j) \/ GetFile(j) \/ Generate(j) \/ Write(j)

Next ==
  \/ ClickTag
  \/ ClickClear
  \/ BeginDrain
  \/ Drain
  \/ Complete
  \/ \E j \in JobIds : Start(j)
  \/ \E j \in JobIds : Upload(j)
  \/ \E j \in JobIds : Sleep(j)
  \/ \E j \in JobIds : GetFile(j)
  \/ \E j \in JobIds : Generate(j)
  \/ \E j \in JobIds : Write(j)

Spec == Init /\ [][Next]_vars

\* the long batch: LogFiles eligible files, one worker, nothing fails
LogInit ==
  /\ api_key = <<"K">>
  /\ target = LogTarget
  /\ concurrency = SliderMin
  /\ env = EnvClean
  /\ Idle

LogSpec == LogInit /\ [][Next]_vars

LiveInit ==
  /\ api_key \in { <<>>, <<"K">> }
  /\ target \in Targets
  /\ concurrency \in ConcurrencyLevels
  /\ env = EnvLive
  /\ Idle

\* every pool thread and the script's thread keep running when they can; the
\* user need not click, and the service need not ever leave PROCESSING
Fairness ==
  /\ \A j \in 1..Len(EntryUniverse) : WF_vars(Worker(j))
  /\ WF_vars(BeginDrain \/ Drain \/ Complete)

FairSpec == LiveInit /\ [][Next]_vars /\ Fairness

\* ----------------------------------------------------------------- claims
Finished(j) == jobs[j].pc = "finished"

Started == main_pc \in {"submitted", "draining"}

Done == main_pc = "done"

\* get_tags_from_gemini has returned for job j
TagsReturned(j) == jobs[j].pc \in {"write", "finished"}

\* C1: a file whose AI stage failed never reaches the Metadata Writer, and
\* its outcome is a failure whose message starts with "AI Error:"
C1_AIFailureSkipsWriter ==
  \A j \in JobIds :
    jobs[j].aiFailed =>
      /\ jobs[j].writeCalls = 0
      /\ Finished(j) =>
           /\ ~jobs[j].outcome.success
           /\ StartsWith(jobs[j].outcome.message, <<"AI Error: ">>)

\* C2: whenever get_tags_from_gemini has returned, it returned either
\* (tags, None) with tags a string or (None, error) with a non-empty error
C2_TagsOrError ==
  \A j \in JobIds :
    TagsReturned(j) =>
      \/ jobs[j].tags # None /\ jobs[j].err = None
      \/ jobs[j].tags = None /\ jobs[j].err # None /\ jobs[j].err # <<>>

\* C4: once write_tags_securely has returned, the temporary instruction file
\* it created is gone, unless an attempt to delete it was made and failed
\* (stated for the calls that follow a successful AI stage)
C4_TempFileRemoved ==
  \A j \in JobIds :
    (Finished(j) /\ ~jobs[j].aiFailed /\ jobs[j].writeCalls > 0) =>
      \/ jobs[j].tmp \in {"none", "removed"}
      \/ jobs[j].tmp = "exists" /\ jobs[j].rmTried

\* the ten lines the instruction file is meant to hold for a tag string
ExpectedLines(file_path, tags) ==
  << <<"-overwrite_original">>, <<"-m">>, <<"-charset">>, <<"utf8">>,
     <<"-sep">>, <<", ">>,
     <<"-XPKeywords=">> \o tags, <<"-Subject=">> \o tags, <<"-Keywords=">> \o tags,
     file_path >>

\* C5: after a successful AI stage, the instruction file read by the tool
\* holds, one per line, the three assignments of the unmodified tag string
\* and then the target path, and nothing of the tag string is a line of its own
C5_ThreeAssignmentsOnly ==
  \A j \in JobIds :
    (~jobs[j].aiFailed /\ jobs[j].tool # "none") =>
      Lines(jobs[j].argfile) = ExpectedLines(jobs[j].path, jobs[j].tags)

\* the paths of the regular files directly in the folder with a supported
\* extension
EligibleFiles ==
  { PathJoin(target.path, target.entries[i].name) :
      i \in { k \in 1..Len(target.entries) :
                /\ target.entries[k].kind = "file"
                /\ Eligible(target.entries[k].name) } }

Dispatched == main_pc \in {"submitted", "draining", "done"}

\* C6: the jobs dispatched are exactly the regular files directly in the
\* folder whose extension is supported, compared without regard to case
C6_OnlyEligibleFiles ==
  Dispatched => { jobs[j].path : j \in JobIds } = EligibleFiles

\* C7: no work is dispatched in tagging mode without an API key and an
\* existing folder, and the clear operation is never called on a path that
\* is not an existing folder
C7_GuardsBeforeWork ==
  /\ jobs # <<>> => (Truthy(api_key) /\ target.kind = "dir")
  /\ clear_calls > 0 => target.kind = "dir"

\* the name of the directory entry that job j was made from
EntryName(j) ==
  CHOOSE n \in { target.entries[i].name : i \in 1..Len(target.entries) } :
    PathJoin(target.path, n) = jobs[j].path

\* C8: for a file whose AI stage succeeded with tag string T, exit code 0
\* yields (filename, True, T), a non-zero exit yields (filename, False,
\* "Write Error: " + error stream), an exception while running the tool
\* yields (filename, False, "Write Error: " + exception text); and no
\* success is reported unless the tool exited with code 0
C8_OutcomeFollowsTool ==
  \A j \in JobIds :
    Finished(j) =>
      /\ (~jobs[j].aiFailed /\ jobs[j].tool = "exit0") =>
           jobs[j].outcome = [filename |-> EntryName(j), success |-> TRUE,
                              message |-> jobs[j].tags]
      /\ (~jobs[j].aiFailed /\ jobs[j].tool \in {"nonzero", "exc"}) =>
           jobs[j].outcome = [filename |-> EntryName(j), success |-> FALSE,
                              message |-> <<"Write Error: ">> \o jobs[j].toolText]
      /\ jobs[j].outcome.success => jobs[j].tool = "exit0"

\* a finished batch in which the tool exited 0 for one tagged file and
\* exited non-zero for another
C8_Witness ==
  /\ Done
  /\ \E j \in JobIds : ~jobs[j].aiFailed /\ jobs[j].tool = "exit0"
                       /\ jobs[j].tags # <<>>
  /\ \E j \in JobIds : ~jobs[j].aiFailed /\ jobs[j].tool = "nonzero"

\* the log lines of the outcomes delivered so far, newest first
NewestFirst ==
  [i \in 1..Len(delivered) |->
     LogMsg(jobs[delivered[Len(delivered) + 1 - i]].outcome)]

\* C9 as stated: the list logs itself never holds more than 20 entries, it
\* holds the most recent outcomes newest first, and the display equals it
C9_LogIsBounded ==
  /\ Len(logs) <= LogCap
  /\ logs = Take(NewestFirst, LogCap)
  /\ log_area = logs

\* C9 amended: the displayed log holds at most 20 entries, the min(k, 20)
\* most recent outcomes newest first; the list logs keeps all k outcomes,
\* newest first, and nothing is evicted from it
C9_DisplayIsBounded ==
  /\ Len(log_area) <= LogCap
  /\ log_area = Take(NewestFirst, LogCap)
  /\ logs = NewestFirst
  /\ processed_count = Len(delivered)

\* more outcomes have been drained than the display holds
C9_Witness == Len(delivered) > LogCap /\ Len(log_area) = LogCap

\* s is a prefix of t
IsPrefix(s, t) == Len(s) <= Len(t) /\ SubSeq(t, 1, Len(s)) = s

\* the part of the safety claims of C10 that does not concern order
C10_PoolSafety ==
  /\ Cardinality(InFlight) <= concurrency
  /\ \A j \in JobIds :
       /\ jobs[j].aiCalls <= 1 /\ jobs[j].writeCalls <= 1
       /\ jobs[j].pc # "queued" => jobs[j].aiCalls = 1
       /\ jobs[j].pc = "queued" => j \in Range(queue)
  /\ \A i, k \in 1..Len(queue) : queue[i] = queue[k] => i = k
  /\ \A i \in 1..Len(delivered) : Finished(delivered[i])
  /\ \A i, k \in 1..Len(delivered) : delivered[i] = delivered[k] => i = k

\* C10 as stated: never more than c workers in flight, each file consumed
\* once, and outcomes delivered in completion order, each after its worker
\* has finished
C10_CompletionOrder ==
  /\ C10_PoolSafety
  /\ IsPrefix(delivered, completed)

\* C10 amended: as stated, except that the futures already finished when
\* as_completed is entered are delivered first in no particular order; the
\* others follow in completion order
C10_OrderAfterEntry ==
  /\ C10_PoolSafety
  /\ \A i, k \in 1..Len(delivered) :
       (delivered[i] \notin Range(snapshot) /\ delivered[k] \in Range(snapshot))
         => k < i
  /\ IsPrefix(SelectSeq(delivered, LAMBDA j : j \notin Range(snapshot)),
              SelectSeq(completed, LAMBDA j : j \notin Range(snapshot)))

\* a finished batch of three files on two workers, one of them finished
\* before as_completed was entered and two after
C10_Witness ==
  /\ main_pc = "done"
  /\ concurrency = 2
  /\ Len(delivered) = 3
  /\ Len(snapshot) = 1

\* some worker is in the polling loop of get_tags_from_gemini
Polling == \E j \in JobIds : jobs[j].pc \in {"sleep", "get_file"}

\* at the completion notice every eligible file has been run to its end and
\* exactly one outcome per file has been reported
OneOutcomePerFile ==
  Done =>
    /\ processed_count = total_files
    /\ total_files = Len(ListFiles(target.path, target.entries))
    /\ Len(logs) = total_files
    /\ \A j \in JobIds :
         /\ Finished(j)
         /\ Cardinality({ i \in 1..Len(delivered) : delivered[i] = j }) = 1

\* C3 as stated: whatever fails for single files, a batch that was started
\* reaches the completion notice, with one outcome per eligible file
C3_BatchCompletes ==
  /\ []OneOutcomePerFile
  /\ Started ~> Done

\* C3 amended: the same, provided no worker stays in the polling loop
\* forever, that is, every uploaded file leaves the PROCESSING state
C3_BatchCompletesUnlessPolling ==
  /\ []OneOutcomePerFile
  /\ (<>[]~Polling) => (Started ~> Done)

\* a finished batch with a failed file and a tagged file
C3_Witness ==
  /\ Done
  /\ \E j \in JobIds : ~jobs[j].outcome.success /\ jobs[j].aiFailed
  /\ \E j \in JobIds : ~jobs[j].outcome.success /\ jobs[j].tool = "nonzero"
  /\ \E j \in JobIds : jobs[j].outcome.success

====
